---- MODULE Spec2Model ----
(***************************************************************************)
(* SqStream (src/index.js): a Duplex stream over an SQS queue.             *)
(*                                                                         *)
(* The read pump (_read -> getMessages -> handleMessages -> deleteMessages)*)
(* and the write pump (_write -> readyForWrite -> queueWrite ->            *)
(* processWrites) are modelled handler by handler.  Every asynchronous     *)
(* boundary of the source (setImmediate, an SQS request, a promise tick,   *)
(* a setInterval timer) is a position of a poll or of a flush; one action  *)
(* is one callback run to completion.                                      *)
(***************************************************************************)
EXTENDS Integers, Sequences, FiniteSets

(* ---------------------------- bounds ----------------------------------- *)
MaxPolls == 2        \* _read calls per behaviour
MaxBatch == 2        \* messages in one receiveMessage result
MaxWrites == 11      \* write() calls per behaviour
MaxLarge == 1        \* of them, payloads that are not one byte long
MaxFaults == 1       \* failed getQueueUrl and sendMessageBatch requests of the write pump
MaxJointPolls == 1   \* _read calls when both pumps run
MaxJointWrites == 1  \* write() calls when both pumps run

(* ---------------------- program constants ------------------------------ *)
maxMessageSize == 262144
maxMessagesPerSend == 10

NoUrl == "null"
QueueUrl == "url"
\* a receiveMessage outcome: an error, a result without Messages (undefined),
\* or a result whose Messages array holds n messages (n = 0: an empty array)
ReceiveError == [kind |-> "error", n |-> 0]
NoMessages == [kind |-> "undefined", n |-> 0]
MessageList(n) == [kind |-> "array", n |-> n]
EOF == <<0, 0>>               \* push(null)

VARIABLES
  queueUrl,        \* this._queueUrl
  inFlightAcks,    \* this._inFlightAcks
  waitingToEnd,    \* this._waitingToEnd
  polls,           \* one record per _read call, in call order
  drainTimer,      \* the setInterval of handleMessages is armed
  pushLog,         \* what this.push was called with, in order
  deleteLog,       \* deleteMessageBatch requests issued: <<poll, Entries>>
  errorLog,        \* 'error' events emitted on the stream
  written,         \* write() calls so far; the k-th payload has id k
  large,           \* how many of them were not one byte long
  faults,          \* service requests of the write pump that failed so far
  pendingWrites,   \* this._pendingWrites
  sendingMessages, \* this._sendingMessages
  flushes,         \* one record per processWrites call that took a batch
  deferred,        \* the payload of the _write waiting on its 500 ms interval
  writable,        \* payloads the Writable base holds while a _write is pending
  ending,          \* end() was called
  finished,        \* 'prefinish' and 'finish' were emitted
  peak,            \* the longest _pendingWrites has been, inside handlers too
  atEnd            \* _pendingWrites, _sendingMessages and a pending _write, at end()

readVars == <<inFlightAcks, waitingToEnd, polls, drainTimer, pushLog, deleteLog>>
writeVars == <<written, large, faults, pendingWrites, sendingMessages, flushes, deferred,
               writable, ending, finished, peak, atEnd>>
vars == <<queueUrl, readVars, errorLog, writeVars>>

(* ------------------------------ helpers -------------------------------- *)
Range(s) == {s[i] : i \in 1..Len(s)}

Msg(p, i) == <<p, i>>

\* the Messages array of poll p holding n messages, in the service's order
Messages(p, n) == [i \in 1..n |-> Msg(p, i)]

\* pc: the callback the poll waits for.  kind, msgs: the receive result and
\* the length of its Messages.  err: the delete promise was rejected.
\* failed: the entries a deleteMessageBatch response lists under Failed.
\* acks: _inFlightAcks when the poll began the drain.
NewPoll == [pc |-> "url", kind |-> "none", msgs |-> 0, err |-> FALSE,
            failed |-> {}, acks |-> -1]

SetPoll(p, pc) == [polls EXCEPT ![p].pc = pc]

(* ------------------------------ getUrl --------------------------------- *)
UrlNeverCached == FALSE

\* getUrl's setImmediate callback: the cached URL resolves at once, else a
\* getQueueUrl request goes out.
UrlCached == queueUrl # NoUrl

(* ------------------------------ _read ---------------------------------- *)
\* _read(): getMessages() starts with getUrl(), whose work waits for setImmediate.
\* The Readable base calls _read when the reader wants data and not after
\* push(null); demand may come while earlier polls are still in flight.
Read ==
  /\ Len(polls) < MaxPolls
  /\ EOF \notin Range(pushLog)
  /\ polls' = Append(polls, NewPoll)
  /\ UNCHANGED <<queueUrl, inFlightAcks, waitingToEnd, drainTimer, pushLog,
                 deleteLog, errorLog, writeVars>>

\* the setImmediate callback of getUrl (lines 45-60), for the getUrl of
\* getMessages (pc "url") and the one of deleteMessages (pc "delUrl"); with the
\* URL in hand the caller's request goes out
UrlTick(p) ==
  /\ polls[p].pc \in {"url", "delUrl"}
  /\ IF polls[p].pc = "url"
       THEN /\ polls' = SetPoll(p, IF UrlCached THEN "receive" ELSE "lookup")
            /\ UNCHANGED deleteLog
       ELSE /\ polls' = SetPoll(p, IF UrlCached THEN "delete" ELSE "delLookup")
            /\ deleteLog' = IF UrlCached
                              THEN Append(deleteLog, <<p, Messages(p, polls[p].msgs)>>)
                              ELSE deleteLog
  /\ UNCHANGED <<queueUrl, inFlightAcks, waitingToEnd, drainTimer, pushLog, errorLog, writeVars>>

\* the getQueueUrl callback (lines 52-59): an error rejects and caches nothing
LookupDone(p, ok) ==
  /\ polls[p].pc \in {"lookup", "delLookup"}
  /\ queueUrl' = IF ok THEN QueueUrl ELSE queueUrl
  /\ IF polls[p].pc = "lookup"
       THEN /\ polls' = SetPoll(p, IF ok THEN "receive" ELSE "failed")
            /\ UNCHANGED deleteLog
       ELSE /\ polls' = IF ok THEN SetPoll(p, "delete")
                         ELSE [polls EXCEPT ![p].pc = "fin", ![p].err = TRUE]
            /\ deleteLog' = IF ok
                              THEN Append(deleteLog, <<p, Messages(p, polls[p].msgs)>>)
                              ELSE deleteLog
  /\ UNCHANGED <<inFlightAcks, waitingToEnd, drainTimer, pushLog, errorLog, writeVars>>

(* --------------------------- handleMessages ---------------------------- *)
HandleBranchIgnoringDrain(messages) ==
  IF messages = NoMessages THEN "drain" ELSE "ack"

\* which branch of handleMessages runs (lines 124, 126, 135)
HandleBranch(messages) ==
  IF waitingToEnd THEN "discard"
  ELSE IF messages = NoMessages THEN "drain"
  ELSE "ack"

\* the receiveMessage callback: an error rejects getMessages' promise, which
\* _read leaves without a handler; a result goes to handleMessages
ReceiveDone(p, result) ==
  /\ polls[p].pc = "receive"
  /\ IF result = ReceiveError
       THEN /\ polls' = SetPoll(p, "failed")
            /\ UNCHANGED <<inFlightAcks, waitingToEnd, drainTimer>>
       ELSE LET b == HandleBranch(result) IN
            /\ polls' = [polls EXCEPT ![p].kind = result.kind,
                                       ![p].msgs = result.n,
                                       ![p].acks = IF b = "drain" THEN inFlightAcks
                                                   ELSE polls[p].acks,
                                       ![p].pc = CASE b = "discard" -> "discarded"
                                                   [] b = "drain" -> "draining"
                                                   [] OTHER -> "delTick"]
            /\ waitingToEnd' = (waitingToEnd \/ b = "drain")
            /\ drainTimer' = (drainTimer \/ b = "drain")
            /\ inFlightAcks' = IF b = "ack" THEN inFlightAcks + 1 ELSE inFlightAcks
  /\ UNCHANGED <<queueUrl, pushLog, deleteLog, errorLog, writeVars>>

\* the setImmediate callback of deleteMessages (lines 91-111)
DeleteTick(p) ==
  /\ polls[p].pc = "delTick"
  /\ polls' = SetPoll(p, IF polls[p].msgs = 0 THEN "emit" ELSE "delUrl")
  /\ UNCHANGED <<queueUrl, inFlightAcks, waitingToEnd, drainTimer, pushLog,
                 deleteLog, errorLog, writeVars>>

\* the deleteMessageBatch callback, deferred.makeNodeResolver() (line 108):
\* err rejects; anything else resolves, whatever the response lists as Failed
DeleteDone(p, err, failed) ==
  /\ polls[p].pc = "delete"
  /\ polls' = [polls EXCEPT ![p].err = err,
                             ![p].failed = IF err THEN 1..polls[p].msgs ELSE failed,
                             ![p].pc = IF err THEN "fin" ELSE "emit"]
  /\ UNCHANGED <<queueUrl, inFlightAcks, waitingToEnd, drainTimer, pushLog,
                 deleteLog, errorLog, writeVars>>

PushAllReversed(log, p, n) == log \o [i \in 1..n |-> Msg(p, n + 1 - i)]

\* messages.forEach(this.push.bind(this)) (line 139)
PushAll(log, p, n) == log \o Messages(p, n)

\* the .then callback of handleMessages (lines 138-140)
Emit(p) ==
  /\ polls[p].pc = "emit"
  /\ pushLog' = PushAll(pushLog, p, polls[p].msgs)
  /\ polls' = SetPoll(p, "fin")
  /\ UNCHANGED <<queueUrl, inFlightAcks, waitingToEnd, drainTimer, deleteLog, errorLog, writeVars>>

\* the .fin callback (lines 142-144); after a rejection .fail(deferred.reject)
\* has rejected the promise handleMessages returned, which _read dropped
AcksKeptAfterFin(n) == n

\* this._inFlightAcks-- (line 143)
AcksAfterFin(n) == n - 1

Fin(p) ==
  /\ polls[p].pc = "fin"
  /\ inFlightAcks' = AcksAfterFin(inFlightAcks)
  /\ polls' = SetPoll(p, "done")
  /\ UNCHANGED <<queueUrl, waitingToEnd, drainTimer, pushLog, deleteLog, errorLog, writeVars>>

DrainNeverBlocked == FALSE

\* the interval callback returns early while acks are in flight (line 129)
DrainBlocked == inFlightAcks > 0

TimerKeptAfterDrain == TRUE

\* clearInterval(timer) (line 131): the interval does not run again
TimerAfterDrain == FALSE

\* the interval callback of the drain branch (lines 128-134), on a run that
\* gets past the early return
DrainTick ==
  /\ drainTimer
  /\ ~DrainBlocked
  /\ drainTimer' = TimerAfterDrain
  /\ pushLog' = Append(pushLog, EOF)
  /\ polls' = [p \in DOMAIN polls |->
                 IF polls[p].pc = "draining" THEN [polls[p] EXCEPT !.pc = "ended"]
                 ELSE polls[p]]
  /\ UNCHANGED <<queueUrl, inFlightAcks, waitingToEnd, deleteLog, errorLog, writeVars>>

ReadInit ==
  /\ inFlightAcks = 0
  /\ waitingToEnd = FALSE
  /\ polls = <<>>
  /\ drainTimer = FALSE
  /\ pushLog = <<>>
  /\ deleteLog = <<>>

\* what a deleteMessageBatch response for n entries lists under Failed:
\* nothing, or one of the entries
FailedChoices(n) == {{}} \cup {{i} : i \in 1..n}

ReceiveResults == {ReceiveError, NoMessages} \cup {MessageList(n) : n \in 0..MaxBatch}

NextRead ==
  \/ Read
  \/ \E p \in DOMAIN polls : UrlTick(p)
  \/ \E p \in DOMAIN polls, ok \in BOOLEAN : LookupDone(p, ok)
  \/ \E p \in DOMAIN polls, r \in ReceiveResults : ReceiveDone(p, r)
  \/ \E p \in DOMAIN polls : DeleteTick(p)
  \/ \E p \in DOMAIN polls, err \in BOOLEAN :
       \E failed \in FailedChoices(polls[p].msgs) : DeleteDone(p, err, failed)
  \/ \E p \in DOMAIN polls : Emit(p)
  \/ \E p \in DOMAIN polls : Fin(p)
  \/ DrainTick

(* =============================== write pump ============================ *)
\* The payloads a producer writes are strings by the time _write has converted
\* them (lines 224-231); a payload is its id and Buffer.byteLength of the string.
Small == 1
PayloadSizes == {Small, maxMessageSize \div 2}

Payload(id, len) == [id |-> id, len |-> len]

\* idx.toString() for the indexes a batch can have (line 169)
IdString(idx) == <<"0", "1", "2", "3", "4", "5", "6", "7", "8", "9", "10",
                   "11", "12">>[idx + 1]

\* the Entries of a batch: the reduce of processWrites (lines 167-174)
Entries(pw) == [i \in 1..Len(pw) |-> [Id |-> IdString(i - 1), MessageBody |-> pw[i]]]

RECURSIVE Bytes(_)
\* the sum of Buffer.byteLength over _pendingWrites (lines 206-208)
Bytes(pw) == IF pw = <<>> THEN 0 ELSE Head(pw).len + Bytes(Tail(pw))

ReadyForWriteOverCount(pw, sending, candidate) ==
  IF Len(pw) > maxMessagesPerSend THEN FALSE
  ELSE IF sending THEN FALSE
  ELSE LET size == Bytes(pw) + candidate IN ~(size + size >= maxMessageSize)

\* readyForWrite(message) (lines 197-215); candidate is the byte length of the
\* message argument, 0 when it is called without one
ReadyForWrite(pw, sending, candidate) ==
  IF Len(pw) >= maxMessagesPerSend THEN FALSE
  ELSE IF sending THEN FALSE
  ELSE LET size == Bytes(pw) + candidate IN ~(size + size >= maxMessageSize)

\* The handlers of the write side call one another synchronously; each is an
\* operator on the record of the fields they touch.
WriteState ==
  [pw |-> pendingWrites, sending |-> sendingMessages, flushes |-> flushes,
   deferred |-> deferred, writable |-> writable, ending |-> ending,
   finished |-> finished, peak |-> peak]

\* processWrites (lines 160-187) up to the getUrl() call: nothing to send
\* returns; else the buffer is swapped out and the batch waits for the URL
ProcessWrites(w, cause) ==
  IF Len(w.pw) = 0 THEN w
  ELSE [w EXCEPT !.sending = TRUE,
                 !.pw = <<>>,
                 !.flushes = Append(@, [pc |-> "url", cause |-> cause,
                                        entries |-> Entries(w.pw),
                                        err |-> FALSE, seen |-> 0])]

\* queueWrite after its callback() (lines 191-194)
QueuePush(w, m) ==
  LET pw == Append(w.pw, m)
      w1 == [w EXCEPT !.pw = pw,
                      !.peak = IF Len(pw) > @ THEN Len(pw) ELSE @]
  IN  IF ~ReadyForWrite(w1.pw, w1.sending, 0) THEN ProcessWrites(w1, "write") ELSE w1

\* _write (lines 233-242) when the Writable base has nothing to do inside
\* callback(): called from write(), or from the base's loop over its buffered
\* writes.  Not ready: the interval is armed and the write stays pending.
WriteNow(w, m) ==
  IF ReadyForWrite(w.pw, w.sending, m.len) THEN QueuePush(w, m)
  ELSE [w EXCEPT !.deferred = <<m>>]

RECURSIVE ClearBuffer(_)
\* callback() of a write that was pending (line 190): the Writable base hands
\* the writes it buffered meanwhile to _write, one after the other, until one
\* of them stays pending
ClearBuffer(w) ==
  IF w.writable = <<>> \/ w.deferred # <<>> THEN w
  ELSE ClearBuffer(WriteNow([w EXCEPT !.writable = Tail(@)], Head(w.writable)))

\* the Writable base after end() or after the callback of a pending write:
\* with end() called and no write left it emits 'prefinish', whose listener is
\* processWrites (line 35), and then 'finish'
FinishMaybe(w) ==
  IF w.ending /\ ~w.finished /\ w.deferred = <<>> /\ w.writable = <<>>
    THEN ProcessWrites([w EXCEPT !.finished = TRUE], "prefinish")
    ELSE w

\* queueWrite from the interval callback (lines 189-195): callback() runs the
\* base's buffered writes and its finish check before the payload is pushed
QueueWriteDeferred(w) ==
  QueuePush(FinishMaybe(ClearBuffer([w EXCEPT !.deferred = <<>>])), w.deferred[1])

SetWriteState(w) ==
  /\ pendingWrites' = w.pw
  /\ sendingMessages' = w.sending
  /\ flushes' = w.flushes
  /\ deferred' = w.deferred
  /\ writable' = w.writable
  /\ ending' = w.ending
  /\ finished' = w.finished
  /\ peak' = w.peak

\* stream.write(payload): the base buffers it while a _write is pending, else
\* calls _write
Write(len) ==
  /\ ~ending
  /\ written < MaxWrites
  /\ len # Small => large < MaxLarge
  /\ written' = written + 1
  /\ large' = IF len # Small THEN large + 1 ELSE large
  /\ LET m == Payload(written + 1, len) IN
       SetWriteState(IF deferred # <<>>
                       THEN [WriteState EXCEPT !.writable = Append(@, m)]
                       ELSE WriteNow(WriteState, m))
  /\ UNCHANGED <<queueUrl, readVars, errorLog, faults, atEnd>>

\* the interval callback of _write (lines 236-241), on a run that finds
\* readyForWrite() true
RetryTimer ==
  /\ deferred # <<>>
  /\ ReadyForWrite(pendingWrites, sendingMessages, 0)
  /\ SetWriteState(QueueWriteDeferred(WriteState))
  /\ UNCHANGED <<queueUrl, readVars, errorLog, written, large, faults, atEnd>>

\* stream.end()
End ==
  /\ ~ending
  /\ SetWriteState(FinishMaybe([WriteState EXCEPT !.ending = TRUE]))
  /\ atEnd' = [pw |-> pendingWrites, sending |-> sendingMessages,
               pending |-> deferred # <<>>]
  /\ UNCHANGED <<queueUrl, readVars, errorLog, written, large, faults>>

SetFlush(f, pc) == [flushes EXCEPT ![f].pc = pc]

\* sendMessageBatch goes out for flush f (lines 177-180); seen: the 'error'
\* events emitted before the request
IssueSend(f) == [flushes EXCEPT ![f].pc = "send", ![f].seen = Len(errorLog)]

\* the setImmediate callback of the getUrl of processWrites (line 176): with
\* the cached URL sendMessageBatch goes out, else getQueueUrl
FlushUrlTick(f) ==
  /\ flushes[f].pc = "url"
  /\ flushes' = IF UrlCached THEN IssueSend(f) ELSE SetFlush(f, "lookup")
  /\ UNCHANGED <<queueUrl, readVars, errorLog, written, large, faults,
                 pendingWrites, sendingMessages, deferred, writable, ending,
                 finished, peak, atEnd>>

\* the getQueueUrl callback for a flush: on an error the promise is rejected
\* and processWrites has no handler for it (line 176)
FlushLookupDone(f, ok) ==
  /\ flushes[f].pc = "lookup"
  /\ ~ok => faults < MaxFaults
  /\ faults' = IF ok THEN faults ELSE faults + 1
  /\ queueUrl' = IF ok THEN QueueUrl ELSE queueUrl
  /\ flushes' = IF ok THEN IssueSend(f) ELSE SetFlush(f, "stuck")
  /\ UNCHANGED <<readVars, errorLog, written, large, pendingWrites,
                 sendingMessages, deferred, writable, ending, finished, peak, atEnd>>

\* this._sendingMessages = false (line 181)
BusyAfterSend == FALSE

ReportSendTwice(log, f, err) ==
  IF err THEN log \o <<<<"send", f>>, <<"send", f>>>> ELSE log

\* if (err) this.emit('error', err) (lines 182-184)
ReportSend(log, f, err) == IF err THEN Append(log, <<"send", f>>) ELSE log

\* the sendMessageBatch callback (lines 180-185)
SendDone(f, err) ==
  /\ flushes[f].pc = "send"
  /\ err => faults < MaxFaults
  /\ faults' = IF err THEN faults + 1 ELSE faults
  /\ flushes' = [flushes EXCEPT ![f].pc = "done", ![f].err = err]
  /\ sendingMessages' = BusyAfterSend
  /\ errorLog' = ReportSend(errorLog, f, err)
  /\ UNCHANGED <<queueUrl, readVars, written, large, pendingWrites, deferred,
                 writable, ending, finished, peak, atEnd>>

NextWrite ==
  \/ \E len \in PayloadSizes : Write(len)
  \/ RetryTimer
  \/ End
  \/ \E f \in DOMAIN flushes : FlushUrlTick(f)
  \/ \E f \in DOMAIN flushes, ok \in BOOLEAN : FlushLookupDone(f, ok)
  \/ \E f \in DOMAIN flushes, err \in BOOLEAN : SendDone(f, err)

WriteInit ==
  /\ written = 0
  /\ large = 0
  /\ faults = 0
  /\ pendingWrites = <<>>
  /\ sendingMessages = FALSE
  /\ flushes = <<>>
  /\ deferred = <<>>
  /\ writable = <<>>
  /\ ending = FALSE
  /\ finished = FALSE
  /\ peak = 0
  /\ atEnd = [pw |-> <<>>, sending |-> FALSE, pending |-> FALSE]

Init ==
  /\ queueUrl = NoUrl
  /\ ReadInit
  /\ WriteInit
  /\ errorLog = <<>>

SpecRead == Init /\ [][NextRead]_vars

\* the write pump alone; the read pump may have resolved the URL already
InitWrite ==
  /\ queueUrl \in {NoUrl, QueueUrl}
  /\ ReadInit
  /\ WriteInit
  /\ errorLog = <<>>

SpecWrite == InitWrite /\ [][NextWrite]_vars

\* both pumps on one stream, sharing _queueUrl
NextBoth ==
  \/ Len(polls) < MaxJointPolls /\ Read
  \/ \E p \in DOMAIN polls : UrlTick(p)
  \/ \E p \in DOMAIN polls, ok \in BOOLEAN : LookupDone(p, ok)
  \/ \E p \in DOMAIN polls, r \in ReceiveResults : ReceiveDone(p, r)
  \/ \E p \in DOMAIN polls : DeleteTick(p)
  \/ \E p \in DOMAIN polls, err \in BOOLEAN :
       \E failed \in FailedChoices(polls[p].msgs) : DeleteDone(p, err, failed)
  \/ \E p \in DOMAIN polls : Emit(p)
  \/ \E p \in DOMAIN polls : Fin(p)
  \/ DrainTick
  \/ written < MaxJointWrites /\ \E len \in PayloadSizes : Write(len)
  \/ RetryTimer
  \/ End
  \/ \E f \in DOMAIN flushes : FlushUrlTick(f)
  \/ \E f \in DOMAIN flushes, ok \in BOOLEAN : FlushLookupDone(f, ok)
  \/ \E f \in DOMAIN flushes, err \in BOOLEAN : SendDone(f, err)

SpecBoth == Init /\ [][NextBoth]_vars

Next == NextRead \/ NextWrite

Spec == Init /\ [][Next]_vars

(* ======================= properties of the read pump =================== *)
\* a delete-then-emit operation is executing: handleMessages has counted it
\* and its .fin callback has not run
Executing(p) ==
  polls[p].pc \in {"delTick", "delUrl", "delLookup", "delete", "emit", "fin"}

\* the places of pushLog that hold a message of poll p
Positions(p) == {k \in 1..Len(pushLog) : pushLog[k] # EOF /\ pushLog[k][1] = p}

DeleteIssued(p) == \E k \in 1..Len(deleteLog) : deleteLog[k][1] = p

ErrorsFrom(tag, i) ==
  Cardinality({k \in 1..Len(errorLog) : errorLog[k] = <<tag, i>>})

\* C1: a message is pushed to the reader only if the delete of that very
\* message succeeded: its batch's deleteMessageBatch was issued, returned
\* without error, and did not list the message as failed.
C1_EmitOnlyDeleted ==
  \A k \in 1..Len(pushLog) :
    pushLog[k] # EOF =>
      LET p == pushLog[k][1]
          i == pushLog[k][2]
      IN  /\ DeleteIssued(p)
          /\ ~polls[p].err
          /\ i \notin polls[p].failed

\* C2: once the delete of a batch of K messages has succeeded and its .then
\* callback has run, pushLog holds the K messages exactly once each, next to one
\* another and in the service's order; and once the operation is complete it
\* no longer counts in _inFlightAcks, which equals the number of operations
\* still executing.
C2_BatchEmittedInOrder ==
  \A p \in DOMAIN polls :
    (polls[p].pc \in {"fin", "done"} /\ polls[p].kind = "array" /\ ~polls[p].err) =>
      /\ Cardinality(Positions(p)) = polls[p].msgs
      /\ \E s \in 0..(Len(pushLog) - polls[p].msgs) :
           \A i \in 1..polls[p].msgs : pushLog[s + i] = Msg(p, i)
      /\ polls[p].pc = "done" =>
           inFlightAcks = Cardinality({q \in DOMAIN polls : Executing(q)})

\* two batches were emitted, one of them of two messages or more, complete
C2_Witness ==
  \E p, q \in DOMAIN polls :
    /\ p # q
    /\ polls[p].pc = "done" /\ ~polls[p].err /\ polls[p].msgs >= 2
    /\ Positions(p) # {} /\ Positions(q) # {}

\* C3: when the delete of a non-empty batch fails, none of its messages is
\* pushed, exactly one 'error' is emitted for it, and the operation no longer
\* counts in _inFlightAcks.
C3_DeleteFailureReported ==
  \A p \in DOMAIN polls :
    (polls[p].pc = "done" /\ polls[p].err) =>
      /\ Positions(p) = {}
      /\ ErrorsFrom("delete", p) = 1
      /\ inFlightAcks = Cardinality({q \in DOMAIN polls : Executing(q)})

\* C4: the step that pushes null is taken only with _inFlightAcks = 0 and with
\* no delete-then-emit operation executing, its emission included.
C4_EndOnlyWhenDrained ==
  [][(EOF \notin Range(pushLog) /\ EOF \in Range(pushLog')) =>
       (inFlightAcks = 0 /\ \A p \in DOMAIN polls : ~Executing(p))]_vars

\* end-of-stream was signalled by a drain that began with an operation in flight
C4_Witness ==
  /\ EOF \in Range(pushLog)
  /\ \E d \in DOMAIN polls : polls[d].pc = "ended" /\ polls[d].acks >= 1

Issued(f) == flushes[f].pc \in {"send", "done"}

BatchBytes(entries) == Bytes([i \in 1..Len(entries) |-> entries[i].MessageBody])

\* in how many issued sendMessageBatch entries the payload with this id travels
SentCount(id) ==
  Cardinality({e \in {<<f, i>> : f \in DOMAIN flushes, i \in 1..maxMessagesPerSend} :
                 /\ Issued(e[1])
                 /\ e[2] <= Len(flushes[e[1]].entries)
                 /\ flushes[e[1]].entries[e[2]].MessageBody.id = id})

InWrittenOrder(pw) == \A i, j \in 1..Len(pw) : i < j => pw[i].id < pw[j].id

\* C6: every batch handed to sendMessageBatch holds 1 to 10 entries, and
\* _pendingWrites never holds more than 10, inside a handler or between two.
C6_BatchAndBufferBounded ==
  /\ peak <= maxMessagesPerSend
  /\ Len(pendingWrites) <= maxMessagesPerSend
  /\ \A f \in DOMAIN flushes :
       Len(flushes[f].entries) >= 1 /\ Len(flushes[f].entries) <= maxMessagesPerSend

\* a full batch of 10 went out
C6_Witness ==
  /\ peak = maxMessagesPerSend
  /\ \E f \in DOMAIN flushes :
       Issued(f) /\ Len(flushes[f].entries) = maxMessagesPerSend

\* C7: twice the combined byte length of the entries of every flushed batch
\* is strictly below maxMessageSize, for payloads admitted at once and for
\* payloads admitted by the retry interval.
C7_BatchBytesBelowLimit ==
  \A f \in DOMAIN flushes :
    BatchBytes(flushes[f].entries) + BatchBytes(flushes[f].entries) < maxMessageSize

\* C8: end() called with M buffered entries, 1 <= M < 10, no flush in flight
\* and no write pending starts exactly one flush, and its request carries the M
\* entries in the order they were written, with ids "0" .. "M-1" by position.
C8_CloseSendsBufferInOrder ==
  (ending /\ Len(atEnd.pw) >= 1 /\ Len(atEnd.pw) < maxMessagesPerSend
          /\ ~atEnd.sending /\ ~atEnd.pending) =>
    /\ Cardinality({f \in DOMAIN flushes : flushes[f].cause = "prefinish"}) = 1
    /\ \A f \in DOMAIN flushes :
         flushes[f].cause = "prefinish" =>
           /\ Len(flushes[f].entries) = Len(atEnd.pw)
           /\ \A i \in 1..Len(atEnd.pw) :
                /\ flushes[f].entries[i].Id = IdString(i - 1)
                /\ flushes[f].entries[i].MessageBody = atEnd.pw[i]
           /\ InWrittenOrder(atEnd.pw)

\* the write side has come to rest after end(), every request answered and
\* every address lookup successful
WriteSettled ==
  /\ ending /\ finished
  /\ deferred = <<>> /\ writable = <<>>
  /\ \A f \in DOMAIN flushes : flushes[f].pc = "done"

\* C9: once the write side has come to rest after end(), with every address
\* lookup successful, every payload written travels in exactly one
\* sendMessageBatch request.
C9_NoWriteLost ==
  WriteSettled => \A id \in 1..written : SentCount(id) = 1

\* C10: 'finish' is not emitted before the sendMessageBatch request of the
\* flush that end-of-input started has gone out and been answered.
C10_FinishAfterFlushDone ==
  finished =>
    \A f \in DOMAIN flushes : flushes[f].cause = "prefinish" => flushes[f].pc = "done"

(* ======================= properties of getUrl ========================== *)
\* the getQueueUrl requests in flight, of polls and of flushes
LookupsInFlight ==
  {<<"poll", p>> : p \in {q \in DOMAIN polls : polls[q].pc \in {"lookup", "delLookup"}}}
    \cup {<<"flush", f>> : f \in {g \in DOMAIN flushes : flushes[g].pc = "lookup"}}

\* C11: once a lookup has succeeded (_queueUrl is set), no getUrl of a poll, a
\* delete or a flush issues a getQueueUrl request any more, and the cached URL
\* every one of them resolves with stays the same.
C11_CachedUrlNoLookup ==
  [][queueUrl # NoUrl =>
       (queueUrl' = queueUrl /\ LookupsInFlight' \subseteq LookupsInFlight)]_vars

\* with the URL cached, the getUrl of a delete and the getUrl of a flush have
\* both gone straight to their requests
C11_Witness ==
  /\ queueUrl = QueueUrl
  /\ \E p \in DOMAIN polls : polls[p].pc = "delete"
  /\ \E f \in DOMAIN flushes : flushes[f].pc = "send"

\* C16: at most one getQueueUrl request is in flight at any time.
C16_OneLookupInFlight == Cardinality(LookupsInFlight) <= 1

(* ================== more properties of the write pump ================== *)
\* the flushes under way: taken from the buffer by processWrites and their
\* sendMessageBatch not answered, the address resolution before it included
FlushesInFlight == {f \in DOMAIN flushes : flushes[f].pc \in {"url", "lookup", "send"}}

\* C12: at most one flush is in flight at any time, and while one is in
\* flight the buffer it emptied admits no payload.
C12_OneFlushInFlight ==
  /\ Cardinality(FlushesInFlight) <= 1
  /\ FlushesInFlight # {} => pendingWrites = <<>>

\* the ids of the payloads that wait in the stream: in _pendingWrites, on the
\* retry interval, or in the Writable base
Waiting ==
  {pendingWrites[i].id : i \in 1..Len(pendingWrites)}
    \cup {deferred[i].id : i \in 1..Len(deferred)}
    \cup {writable[i].id : i \in 1..Len(writable)}

\* the ids of the payloads processWrites took for flush f
FlushIds(f) ==
  {flushes[f].entries[i].MessageBody.id : i \in 1..Len(flushes[f].entries)}

\* C13: the step that answers a sendMessageBatch request clears
\* _sendingMessages; an answered request has exactly one 'error' event if it
\* failed and none if it succeeded; and the payloads of an answered batch
\* travel once in that request, in no other flush, and wait nowhere in the
\* stream.
C13_SendAnswered ==
  /\ [][\A f \in DOMAIN flushes :
          (flushes[f].pc = "send" /\ flushes'[f].pc = "done") =>
            sendingMessages' = FALSE]_vars
  /\ [](\A f \in DOMAIN flushes :
          flushes[f].pc = "done" =>
            /\ ErrorsFrom("send", f) = (IF flushes[f].err THEN 1 ELSE 0)
            /\ Cardinality(FlushIds(f)) = Len(flushes[f].entries)
            /\ FlushIds(f) \cap Waiting = {}
            /\ \A g \in DOMAIN flushes \ {f} : FlushIds(f) \cap FlushIds(g) = {})

\* one request failed and a later one succeeded
C13_Witness ==
  \E f, g \in DOMAIN flushes :
    /\ f < g
    /\ flushes[f].pc = "done" /\ flushes[f].err
    /\ flushes[g].pc = "done" /\ ~flushes[g].err
    /\ ~sendingMessages

\* C14: every failed service call has exactly one 'error' event: a failed
\* receive (or the lookup that aborts it), a failed delete (or the lookup that
\* aborts it), a failed send, and the lookup that aborts a flush.
C14_FatalSurfacedOnce ==
  /\ \A p \in DOMAIN polls :
       /\ polls[p].pc = "failed" => ErrorsFrom("receive", p) = 1
       /\ (polls[p].pc \in {"fin", "done"} /\ polls[p].err) =>
            ErrorsFrom("delete", p) = 1
  /\ \A f \in DOMAIN flushes :
       /\ flushes[f].pc = "stuck" => ErrorsFrom("send", f) = 1
       /\ (flushes[f].pc = "done" /\ flushes[f].err) => ErrorsFrom("send", f) = 1

\* C15: no sendMessageBatch request goes out after a send failure was
\* reported: every issued request saw an error log free of send errors.
C15_NoSendAfterSendError ==
  \A f \in DOMAIN flushes :
    Issued(f) => \A k \in 1..flushes[f].seen : errorLog[k][1] # "send"

\* C17: a deferred write is not stranded: when a payload waits on the retry
\* interval and every service call has returned (no flush waits for getUrl,
\* getQueueUrl or sendMessageBatch), the interval's readyForWrite() test passes.
C17_DeferredWriteNotStranded ==
  (deferred # <<>> /\ FlushesInFlight = {}) =>
    ReadyForWrite(pendingWrites, sendingMessages, 0)

(* =================== more properties of the read pump ================== *)
\* C18: a receive that brought no messages, as a missing Messages field or as
\* an empty array, has put the stream into draining once it is handled.
C18_EmptyReceiveDrains ==
  \A p \in DOMAIN polls :
    (polls[p].kind \in {"undefined", "array"} /\ polls[p].msgs = 0) =>
      waitingToEnd

\* the places of pushLog that hold the end-of-stream mark
Ends == {k \in 1..Len(pushLog) : pushLog[k] = EOF}

\* C19: null is pushed at most once, nothing is pushed after it, and
\* _waitingToEnd, once set, stays set.
C19_ClosedIsTerminal ==
  /\ [](/\ Cardinality(Ends) <= 1
        /\ Ends # {} => (pushLog[Len(pushLog)] = EOF /\ waitingToEnd))
  /\ [][waitingToEnd => waitingToEnd']_vars

\* the stream ended and a later poll that also came back empty was discarded
C19_Witness ==
  /\ Ends # {}
  /\ ~drainTimer
  /\ \E p, q \in DOMAIN polls :
       /\ polls[p].pc = "ended"
       /\ polls[q].pc = "discarded" /\ polls[q].kind = "undefined"

\* C20: _inFlightAcks is the number of delete-then-emit operations executing,
\* hence never negative and 0 when none executes; the step that starts an
\* operation adds one, the step that completes it takes one away, after a
\* failure as after a success, and a successful operation completes only with
\* all its messages pushed.
C20_AcksCountExecuting ==
  /\ [](inFlightAcks = Cardinality({p \in DOMAIN polls : Executing(p)}))
  /\ [][\A p \in DOMAIN polls :
          /\ (~Executing(p) /\ Executing(p)') => inFlightAcks' = inFlightAcks + 1
          /\ (Executing(p) /\ ~Executing(p)') =>
               /\ inFlightAcks' = inFlightAcks - 1
               /\ polls[p].pc = "fin"
               /\ ~polls[p].err => Cardinality(Positions(p)) = polls[p].msgs]_vars

\* an operation completed after its delete failed while another one executes
C20_Witness ==
  \E p, q \in DOMAIN polls :
    /\ polls[p].pc = "done" /\ polls[p].err
    /\ Executing(q)
    /\ inFlightAcks = 1

====
